---- MODULE Spec2Model ----
(***************************************************************************)
(* Model of the two manifest converters of the repository:                 *)
(*   src/hf_db_to_input.py     dataset mode (get_video_url_from_hf,        *)
(*                             extract_videos_from_dataset, main)          *)
(*   src/video_dir_to_input.py directory mode (find_video_files,           *)
(*                             create_json_input, main)                    *)
(* Python strings are sequences of one-character strings, so that          *)
(* startswith, split, basename, replace and lower are computed and not     *)
(* assumed.  Python values are tagged records.                             *)
(***************************************************************************)
EXTENDS Integers, Sequences, FiniteSets, TLC

VARIABLES
    pc,            \* position of the run being modelled
    \* get_video_url_from_hf
    video_item,    \* argument video_item
    dataset_name,  \* argument dataset_name (also of extract_videos_from_dataset)
    file_index,    \* argument file_index
    resolved,      \* outcome of the call
    \* extract_videos_from_dataset
    dataset,       \* argument dataset: one split, or a mapping of splits
    split,         \* argument split
    label_column,  \* argument label_column; reset to None at line 179
    label_column_given, \* history: label_column as the caller passed it
    max_items,     \* argument max_items
    default_label, \* argument default_label
    change_label,  \* argument change_label (args.change_label in main)
    use_label,     \* local use_label
    i,             \* index of the next record enumerate(data) hands out
    results,       \* local results
    origin,        \* history: for each entry of results, the index of its record
    extracted,     \* outcome of the call
    \* the two main()s
    tool,          \* which script runs: "hf" or "dir"
    database,      \* args.database
    output_file,   \* content of the file args.output
    output_before, \* history: content of args.output when the run started
    io_fault,      \* environment: where the file system fails, if anywhere
    load_outcome,  \* environment: what load_dataset returns or raises
    loader_called, \* history: load_dataset was called
    video_dir,     \* environment: what args.video_dir names
    relative_paths,\* args.relative_paths
    outcome,       \* history: which path of main() ended the run
    ret,           \* value main() returned
    exit_status    \* exit status of the process

resolverVars == <<video_item, file_index, resolved>>
extractVars == <<dataset, split, label_column_given, label_column, max_items, default_label, change_label,
                 use_label, i, results, origin, extracted>>
mainVars == <<tool, database, output_file, output_before, io_fault, load_outcome,
              loader_called, video_dir, relative_paths, outcome, ret, exit_status>>
vars == <<pc, dataset_name, resolverVars, extractVars, mainVars>>

(***************************************************************************)
(* Bounds of the model.                                                    *)
(***************************************************************************)
MaxIndex == 1
MaxRecords == 3
MaxCap == 2
MaxMainRecords == 2
MaxEntries == 2

(***************************************************************************)
(* Python str operations, on sequences of characters.                      *)
(***************************************************************************)
UpperChars == <<"A", "B", "C", "D", "E", "F", "G", "H", "I", "J", "K", "L", "M", "N", "O", "P", "Q", "R", "S", "T", "U", "V", "W", "X", "Y", "Z">>
LowerChars == <<"a", "b", "c", "d", "e", "f", "g", "h", "i", "j", "k", "l", "m", "n", "o", "p", "q", "r", "s", "t", "u", "v", "w", "x", "y", "z">>

\* str.lower() on one character
LowerChar(c) ==
    IF \E k \in 1..Len(UpperChars) : UpperChars[k] = c
    THEN LowerChars[CHOOSE k \in 1..Len(UpperChars) : UpperChars[k] = c]
    ELSE c

\* str.lower()
Lower(s) == [k \in 1..Len(s) |-> LowerChar(s[k])]

\* s.startswith(p)
StartsWith(s, p) == Len(s) >= Len(p) /\ SubSeq(s, 1, Len(p)) = p

\* sub in s
Contains(s, sub) ==
    \E k \in 1..(Len(s) - Len(sub) + 1) : SubSeq(s, k, k + Len(sub) - 1) = sub

\* s.rfind(c) for a single character, 0 when absent (positions from 1)
RFind(s, c) ==
    IF \E k \in 1..Len(s) : s[k] = c
    THEN CHOOSE k \in 1..Len(s) : s[k] = c /\ \A j \in (k+1)..Len(s) : s[j] # c
    ELSE 0

\* s.find(c) for a single character, 0 when absent (positions from 1)
Find(s, c) ==
    IF \E k \in 1..Len(s) : s[k] = c
    THEN CHOOSE k \in 1..Len(s) : s[k] = c /\ \A j \in 1..(k-1) : s[j] # c
    ELSE 0

\* os.path.basename(p) for a str: what follows the last '/'
BasenameStr(p) == SubSeq(p, RFind(p, "/") + 1, Len(p))

\* s.split(c) for a single character separator
RECURSIVE Split(_, _)
Split(s, c) ==
    IF Find(s, c) = 0 THEN <<s>>
    ELSE <<SubSeq(s, 1, Find(s, c) - 1)>> \o Split(SubSeq(s, Find(s, c) + 1, Len(s)), c)

\* c.join(parts)
RECURSIVE Join(_, _)
Join(parts, c) ==
    IF Len(parts) = 0 THEN <<>>
    ELSE IF Len(parts) = 1 THEN parts[1]
    ELSE parts[1] \o <<c>> \o Join(Tail(parts), c)

\* s.replace(pat, ''): every non-overlapping occurrence removed, left to right
RECURSIVE RemoveAll(_, _)
RemoveAll(s, pat) ==
    IF Len(s) = 0 THEN <<>>
    ELSE IF StartsWith(s, pat) THEN RemoveAll(SubSeq(s, Len(pat) + 1, Len(s)), pat)
    ELSE <<s[1]>> \o RemoveAll(Tail(s), pat)

DigitChars == <<"0", "1", "2", "3", "4", "5", "6", "7", "8", "9">>

\* str(n) for an int n >= 0
RECURSIVE IntStr(_)
IntStr(n) ==
    IF n < 10 THEN <<DigitChars[n + 1]>>
    ELSE IntStr(n \div 10) \o <<DigitChars[(n % 10) + 1]>>

HttpScheme == <<"h", "t", "t", "p", ":", "/", "/">>
HttpsScheme == <<"h", "t", "t", "p", "s", ":", "/", "/">>
HfScheme == <<"h", "f", ":", "/", "/">>

\* s.startswith(('http://', 'https://'))
IsUrlStr(s) == StartsWith(s, HttpScheme) \/ StartsWith(s, HttpsScheme)

\* f"https://huggingface.co/datasets/{d}/resolve/main/{f}"
HfResolveUrl(d, f) ==
    <<"h", "t", "t", "p", "s", ":", "/", "/", "h", "u", "g", "g", "i", "n", "g", "f", "a", "c", "e", ".", "c", "o", "/", "d", "a", "t", "a", "s", "e", "t", "s", "/">> \o d \o <<"/", "r", "e", "s", "o", "l", "v", "e", "/", "m", "a", "i", "n", "/">> \o f

\* f"video_{file_index}.mp4"
Placeholder(idx) == <<"v", "i", "d", "e", "o", "_">> \o IntStr(idx) \o <<".", "m", "p", "4">>

(***************************************************************************)
(* Python values.                                                          *)
(*   str    [t |-> "str", s |-> characters]                                *)
(*   None   [t |-> "none"]                                                 *)
(*   int    [t |-> "int", n |-> number]                                    *)
(*   bytes  [t |-> "bytes"]         a non-str value json cannot serialize  *)
(*   dict   [t |-> "dict", m |-> function from keys to values]             *)
(*   object [t |-> "obj", a |-> function from attribute names to values,   *)
(*           r |-> characters of str(object)]                              *)
(***************************************************************************)
StrV(s) == [t |-> "str", s |-> s]
NoneV == [t |-> "none"]
IntV(n) == [t |-> "int", n |-> n]
BytesV == [t |-> "bytes"]
DictV(m) == [t |-> "dict", m |-> m]
ObjV(a, r) == [t |-> "obj", a |-> a, r |-> r]

NoAttrs == [k \in {} |-> NoneV]

IsStr(v) == v.t = "str"
IsDict(v) == v.t = "dict"

\* hasattr(v, name): only model objects carry the probed attributes
HasAttr(v, name) == v.t = "obj" /\ name \in DOMAIN v.a

\* bool(v)
Truthy(v) ==
    CASE v.t = "str" -> v.s # <<>>
      [] v.t = "none" -> FALSE
      [] v.t = "int" -> v.n # 0
      [] v.t = "bytes" -> TRUE
      [] v.t = "dict" -> DOMAIN v.m # {}
      [] v.t = "obj" -> TRUE

\* str(v)
PyStr(v) ==
    CASE v.t = "str" -> v.s
      [] v.t = "none" -> <<"N", "o", "n", "e">>
      [] v.t = "int" -> IntStr(v.n)
      [] v.t = "bytes" -> <<"b", "'", "x", "'">>
      [] v.t = "dict" -> <<"{", "}">>
      [] v.t = "obj" -> v.r

\* Outcome of a call: a returned value, a value for the local `filename`,
\* or an exception that leaves the function.
Ret(v) == [k |-> "ret", v |-> v]
Filename(v) == [k |-> "filename", v |-> v]
Raise(e) == [k |-> "raise", e |-> e]

\* os.path.basename(v): str only (bytes give bytes); anything else raises TypeError
Basename(v) ==
    CASE v.t = "str" -> Filename(StrV(BasenameStr(v.s)))
      [] v.t = "bytes" -> Filename(BytesV)
      [] OTHER -> Raise("TypeError")

(***************************************************************************)
(* get_video_url_from_hf, branch by branch.  Each branch operator yields   *)
(* Ret (the function returned there), Filename (the local `filename`       *)
(* after the branch, NoneV when it stayed None) or Raise.                  *)
(***************************************************************************)

\* FromHfEncoded without lines 48-49: the @revision is kept in the dataset path
FromHfEncodedKeepRevision(enc) ==
    LET hf_path == IF "path" \in DOMAIN enc.m THEN enc.m["path"] ELSE StrV(<<>>)
    IN  IF ~IsStr(hf_path) THEN Raise("AttributeError")
        ELSE IF StartsWith(hf_path.s, HfScheme)
        THEN LET path_parts == Split(RemoveAll(hf_path.s, HfScheme), "/")
                 n == Len(path_parts)
             IN  IF n >= 3
                 THEN Ret(StrV(HfResolveUrl(Join(SubSeq(path_parts, 2, n - 1), "/"),
                                            path_parts[n])))
                 ELSE Filename(NoneV)
        ELSE IF hf_path.s # <<>>
        THEN Filename(StrV(BasenameStr(hf_path.s)))
        ELSE Filename(NoneV)

\* lines 36-54: video_item._hf_encoded is a dict
FromHfEncoded(enc) ==
    LET hf_path == IF "path" \in DOMAIN enc.m THEN enc.m["path"] ELSE StrV(<<>>)
    IN  IF ~IsStr(hf_path) THEN Raise("AttributeError")   \* no str.startswith
        ELSE IF StartsWith(hf_path.s, HfScheme)
        THEN LET path_parts == Split(RemoveAll(hf_path.s, HfScheme), "/")
                 n == Len(path_parts)
                 joined == Join(SubSeq(path_parts, 2, n - 1), "/")
                 dataset_path == IF Contains(joined, <<"@">>)
                                 THEN Split(joined, "@")[1]
                                 ELSE joined
             IN  IF n >= 3
                 THEN Ret(StrV(HfResolveUrl(dataset_path, path_parts[n])))
                 ELSE Filename(NoneV)
        ELSE IF hf_path.s # <<>>
        THEN Filename(StrV(BasenameStr(hf_path.s)))
        ELSE Filename(NoneV)

\* lines 67-82: the try block of the container branch; whatever it raises
\* is caught and the placeholder becomes the filename
ContainerTry(container, idx) ==
    LET caught == Filename(StrV(Placeholder(idx)))
        guard(x) == IF x.k = "raise" THEN caught ELSE x
    IN  IF HasAttr(container, "name")
        THEN guard(Basename(container.a["name"]))
        ELSE IF HasAttr(container, "metadata")
        THEN LET metadata == container.a["metadata"]
             IN  CASE metadata.t = "dict" ->
                        IF "filename" \in DOMAIN metadata.m
                        THEN Filename(metadata.m["filename"])
                        ELSE Filename(NoneV)
                   [] metadata.t = "str" ->
                        \* substring test, then str indexed by a str raises
                        IF Contains(metadata.s, <<"f", "i", "l", "e", "n", "a", "m", "e">>)
                        THEN caught ELSE Filename(NoneV)
                   [] OTHER -> caught         \* 'filename' in metadata raises
        ELSE IF HasAttr(container, "file")
        THEN IF HasAttr(container.a["file"], "name")
             THEN guard(Basename(container.a["file"].a["name"]))
             ELSE Filename(StrV(PyStr(container.a["file"])))
        ELSE Filename(NoneV)

\* lines 57-82: video_item has container and _hf_encoded (not a dict)
FromContainer(item, idx) ==
    LET container == item.a["container"]
    IN  IF HasAttr(container, "name")
        THEN Basename(container.a["name"])
        ELSE IF /\ HasAttr(item, "_c")
                /\ HasAttr(item.a["_c"], "file")
                /\ HasAttr(item.a["_c"].a["file"], "name")
        THEN Basename(item.a["_c"].a["file"].a["name"])
        ELSE ContainerTry(container, idx)

\* lines 94-99: video_item.src
FromSrc(src) ==
    IF IsStr(src) /\ IsUrlStr(src.s)
    THEN Ret(src)
    ELSE Filename(StrV(BasenameStr(PyStr(src))))

\* lines 100-106: video_item is a str (not an http(s) URL)
FromStr(item) ==
    IF StartsWith(item.s, <<"/">>)
    THEN Filename(StrV(BasenameStr(item.s)))
    ELSE Filename(item)

DictKeys == <<"url", "src", "path", "filename", "name">>

\* lines 107-117: video_item is a dict; keys probed from position k on
RECURSIVE FromDictAt(_, _)
FromDictAt(item, k) ==
    IF k > Len(DictKeys) THEN Filename(NoneV)
    ELSE IF DictKeys[k] \in DOMAIN item.m /\ IsStr(item.m[DictKeys[k]])
    THEN IF IsUrlStr(item.m[DictKeys[k]].s)
         THEN Ret(item.m[DictKeys[k]])
         ELSE Filename(StrV(BasenameStr(item.m[DictKeys[k]].s)))
    ELSE FromDictAt(item, k + 1)

FromDict(item) == FromDictAt(item, 1)

\* lines 118-124: anything else is stringified
FromOther(item) ==
    LET str_item == PyStr(item)
    IN  IF Contains(str_item, <<"/">>)
        THEN Filename(StrV(BasenameStr(str_item)))
        ELSE Filename(StrV(str_item))

\* The chain with `if` in place of `elif`: a branch that leaves `filename`
\* empty lets the next branch run
ExtractFallThrough(item, idx) ==
    LET nothing == Filename(NoneV)
        done(x) == x.k # "filename" \/ Truthy(x.v)
        b2 == IF HasAttr(item, "_hf_encoded") /\ IsDict(item.a["_hf_encoded"])
              THEN FromHfEncoded(item.a["_hf_encoded"]) ELSE nothing
        b3 == IF HasAttr(item, "container") /\ HasAttr(item, "_hf_encoded")
              THEN FromContainer(item, idx) ELSE nothing
        b4 == IF HasAttr(item, "path") THEN Basename(item.a["path"]) ELSE nothing
        b5 == IF HasAttr(item, "filename") THEN Filename(item.a["filename"]) ELSE nothing
        b6 == IF HasAttr(item, "name") THEN Filename(item.a["name"]) ELSE nothing
        b7 == IF HasAttr(item, "url") THEN Ret(item.a["url"]) ELSE nothing
        b8 == IF HasAttr(item, "src") THEN FromSrc(item.a["src"]) ELSE nothing
        b9 == IF IsStr(item) THEN FromStr(item)
              ELSE IF IsDict(item) THEN FromDict(item)
              ELSE FromOther(item)
    IN  IF done(b2) THEN b2 ELSE IF done(b3) THEN b3 ELSE IF done(b4) THEN b4
        ELSE IF done(b5) THEN b5 ELSE IF done(b6) THEN b6 ELSE IF done(b7) THEN b7
        ELSE IF done(b8) THEN b8 ELSE b9

\* lines 31-124: the if/elif chain that sets `filename` or returns
ExtractFilename(item, idx) ==
    IF HasAttr(item, "_hf_encoded") /\ IsDict(item.a["_hf_encoded"])
    THEN FromHfEncoded(item.a["_hf_encoded"])
    ELSE IF HasAttr(item, "container") /\ HasAttr(item, "_hf_encoded")
    THEN FromContainer(item, idx)
    ELSE IF HasAttr(item, "path") THEN Basename(item.a["path"])
    ELSE IF HasAttr(item, "filename") THEN Filename(item.a["filename"])
    ELSE IF HasAttr(item, "name") THEN Filename(item.a["name"])
    ELSE IF HasAttr(item, "url") THEN Ret(item.a["url"])
    ELSE IF HasAttr(item, "src") THEN FromSrc(item.a["src"])
    ELSE IF IsStr(item) THEN FromStr(item)
    ELSE IF IsDict(item) THEN FromDict(item)
    ELSE FromOther(item)

\* '<none>' in str(filename).lower()
HasNoneTag(filename) == Contains(Lower(PyStr(filename)), <<"<", "n", "o", "n", "e", ">">>)

\* PostResolve with the URL built from dataset_clean (line 129) instead of
\* dataset_name (line 131)
PostResolveClean(filename, ds, idx) ==
    IF /\ Truthy(filename)
       /\ ds # <<>>
       /\ filename # StrV(<<"N", "o", "n", "e">>)
       /\ ~HasNoneTag(filename)
    THEN Ret(StrV(HfResolveUrl(Join(Split(ds, "/"), "-") , PyStr(filename))))
    ELSE IF Truthy(filename) THEN Ret(filename)
    ELSE Ret(StrV(Placeholder(idx)))

\* lines 126-135: combine the filename with the dataset name, or fall back
PostResolve(filename, ds, idx) ==
    IF /\ Truthy(filename)
       /\ ds # <<>>
       /\ filename # StrV(<<"N", "o", "n", "e">>)
       /\ ~HasNoneTag(filename)
    THEN Ret(StrV(HfResolveUrl(ds, PyStr(filename))))
    ELSE IF Truthy(filename) THEN Ret(filename)
    ELSE Ret(StrV(Placeholder(idx)))

\* lines 14-135
get_video_url_from_hf(item, ds, idx) ==
    IF IsStr(item) /\ IsUrlStr(item.s)
    THEN Ret(item)
    ELSE LET x == ExtractFilename(item, idx)
         IN  IF x.k = "filename" THEN PostResolve(x.v, ds, idx) ELSE x

(***************************************************************************)
(* Inputs of the Reference Resolver: one value per shape and per edge of   *)
(* each branch of get_video_url_from_hf.                                   *)
(***************************************************************************)
A1(k, v) == k :> v
A2(k1, v1, k2, v2) == (k1 :> v1) @@ (k2 :> v2)
Obj(a) == ObjV(a, <<"<", "O", ">">>)
Enc(p) == DictV(A1("path", p))

StrItems ==
    { StrV(<<"h", "t", "t", "p", "s", ":", "/", "/", "h", "/", "v", ".", "m", "p", "4">>), StrV(<<"h", "t", "t", "p", ":", "/", "/", "h", "/", "v", ".", "m", "p", "4">>), StrV(<<"c", "l", "i", "p", "9", ".", "m", "p", "4">>),
      StrV(<<"/", "d", "/", "a", ".", "m", "p", "4">>), StrV(<<"d", "/", "a", ".", "m", "p", "4">>), StrV(<<>>), StrV(<<"/">>),
      StrV(<<"N", "o", "n", "e">>), StrV(<<"x", "<", "N", "O", "N", "E", ">">>), StrV(<<"n", "o", "n", "e">>) }

HfItems ==
    { Obj(A1("_hf_encoded", Enc(StrV(<<"h", "f", ":", "/", "/", "d", "a", "t", "a", "s", "e", "t", "s", "/", "a", "l", "i", "c", "e", "/", "m", "y", "s", "e", "t", "@", "a", "b", "c", "d", "1", "2", "3", "/", "c", "l", "i", "p", "7", ".", "m", "p", "4">>)))),
      Obj(A1("_hf_encoded", Enc(StrV(<<"h", "f", ":", "/", "/", "d", "a", "t", "a", "s", "e", "t", "s", "/", "a", "l", "i", "c", "e", "/", "m", "y", "s", "e", "t", "/", "c", "l", "i", "p", "7", ".", "m", "p", "4">>)))),
      Obj(A1("_hf_encoded", Enc(StrV(<<"h", "f", ":", "/", "/", "d", "a", "t", "a", "s", "e", "t", "s", "/", "a", "l", "i", "c", "e", "/", "m", "y", "s", "e", "t", "@", "a", "b", "/", "s", "u", "b", "/", "c", "l", "i", "p", "7", ".", "m", "p", "4">>)))),
      Obj(A1("_hf_encoded", Enc(StrV(<<"h", "f", ":", "/", "/", "d", "a", "t", "a", "s", "e", "t", "s", "/", "c", "l", "i", "p", "7", ".", "m", "p", "4">>)))),
      Obj(A1("_hf_encoded", Enc(StrV(<<"h", "f", ":", "/", "/", "c", "l", "i", "p", "7", ".", "m", "p", "4">>)))),
      Obj(A1("_hf_encoded", Enc(StrV(<<"h", "f", ":", "/", "/", "s", "p", "a", "c", "e", "s", "/", "b", "o", "b", "/", "a", "p", "p", "/", "c", "l", "i", "p", "7", ".", "m", "p", "4">>)))),
      Obj(A1("_hf_encoded", Enc(StrV(<<"h", "f", ":", "/", "/", "d", "a", "t", "a", "s", "e", "t", "s", "/", "a", "/", "h", "f", ":", "/", "/", "c", ".", "m", "p", "4">>)))),
      Obj(A1("_hf_encoded", Enc(StrV(<<"h", "f", ":", "/", "/", "d", "a", "t", "a", "s", "e", "t", "s", "/", "a", "l", "@", "i", "c", "e", "/", "m", "y", "s", "e", "t", "@", "a", "b", "/", "c", ".", "m", "p", "4">>)))),
      Obj(A1("_hf_encoded", Enc(StrV(<<"/", "c", "a", "c", "h", "e", "/", "c", "l", "i", "p", ".", "m", "p", "4">>)))),
      Obj(A1("_hf_encoded", Enc(NoneV))),
      Obj(A2("_hf_encoded", Enc(StrV(<<>>)), "path", StrV(<<"/", "d", "/", "a", ".", "m", "p", "4">>))),
      Obj(A2("_hf_encoded", DictV(NoAttrs), "url", StrV(<<"h", "t", "t", "p", ":", "/", "/", "u", "/", "v", ".", "m", "p", "4">>))),
      Obj(A2("_hf_encoded", Enc(StrV(<<"h", "f", ":", "/", "/", "d", "a", "t", "a", "s", "e", "t", "s", "/", "c", "l", "i", "p", "7", ".", "m", "p", "4">>)), "name", StrV(<<"n", ".", "m", "p", "4">>))) }

ContainerItems ==
    { Obj(A2("_hf_encoded", NoneV, "container", Obj(A1("name", StrV(<<"/", "c", "/", "n", ".", "m", "p", "4">>))))),
      Obj(A2("_hf_encoded", NoneV, "container", Obj(A1("name", NoneV)))),
      Obj(A2("_hf_encoded", NoneV, "container",
             Obj(A1("metadata", DictV(A1("filename", StrV(<<"m", ".", "m", "p", "4">>))))))),
      Obj(A2("_hf_encoded", NoneV, "container", Obj(A1("metadata", DictV(NoAttrs))))),
      Obj(A2("_hf_encoded", NoneV, "container", Obj(A1("metadata", NoneV)))),
      Obj(A2("_hf_encoded", NoneV, "container",
             Obj(A1("file", Obj(A1("name", StrV(<<"/", "f", "/", "g", ".", "m", "p", "4">>))))))),
      Obj(A2("_hf_encoded", NoneV, "container", Obj(A1("file", Obj(A1("name", NoneV)))))),
      Obj(A2("_hf_encoded", NoneV, "container", Obj(A1("file", IntV(7))))),
      Obj(A2("_hf_encoded", NoneV, "container", Obj(NoAttrs))),
      Obj(A2("_hf_encoded", NoneV, "container", Obj(NoAttrs))
          @@ A1("_c", Obj(A1("file", Obj(A1("name", StrV(<<"/", "k", "/", "c", ".", "m", "p", "4">>))))))),
      Obj(A2("_hf_encoded", NoneV, "container", Obj(NoAttrs))
          @@ A1("path", StrV(<<"/", "d", "/", "a", ".", "m", "p", "4">>))) }

AttrItems ==
    { Obj(A1("path", StrV(<<"/", "d", "/", "a", ".", "m", "p", "4">>))), Obj(A1("path", NoneV)),
      Obj(A2("path", StrV(<<"/", "d", "/", "a", ".", "m", "p", "4">>), "filename", StrV(<<"f", ".", "m", "p", "4">>))),
      Obj(A1("filename", StrV(<<"f", ".", "m", "p", "4">>))), Obj(A1("filename", IntV(5))),
      Obj(A1("filename", StrV(<<>>))),
      Obj(A2("filename", StrV(<<>>), "url", StrV(<<"h", "t", "t", "p", ":", "/", "/", "u", "/", "v", ".", "m", "p", "4">>))),
      Obj(A1("name", StrV(<<"n", ".", "m", "p", "4">>))), Obj(A1("name", NoneV)),
      Obj(A1("url", StrV(<<"h", "t", "t", "p", ":", "/", "/", "u", "/", "v", ".", "m", "p", "4">>))), Obj(A1("url", StrV(<<"v", ".", "m", "p", "4">>))),
      Obj(A1("url", StrV(<<>>))), Obj(A1("url", BytesV)),
      Obj(A2("url", StrV(<<"h", "t", "t", "p", ":", "/", "/", "u", "/", "v", ".", "m", "p", "4">>), "src", StrV(<<"/", "s", "/", "v", ".", "m", "p", "4">>))),
      Obj(A1("src", StrV(<<"h", "t", "t", "p", "s", ":", "/", "/", "s", "/", "v", ".", "m", "p", "4">>))), Obj(A1("src", StrV(<<"/", "s", "/", "v", ".", "m", "p", "4">>))),
      Obj(A1("src", NoneV)) }

DictItems ==
    { DictV(A1("url", StrV(<<"h", "t", "t", "p", ":", "/", "/", "u", "/", "v", ".", "m", "p", "4">>))),
      DictV(A2("url", IntV(5), "path", StrV(<<"/", "a", "/", "b", ".", "m", "p", "4">>))),
      DictV(A1("url", IntV(5))),
      DictV(A2("path", StrV(<<"q", ".", "m", "p", "4">>), "url", StrV(<<"h", "t", "t", "p", ":", "/", "/", "u", "/", "v", ".", "m", "p", "4">>))),
      DictV(A2("src", StrV(<<"/", "s", "/", "v", ".", "m", "p", "4">>), "name", StrV(<<"n", ".", "m", "p", "4">>))),
      DictV(A1("name", StrV(<<>>))),
      DictV(NoAttrs) }

OtherItems ==
    { NoneV, IntV(5), IntV(0), BytesV, Obj(NoAttrs), ObjV(NoAttrs, <<"<", "a", "/", "b", ">">>) }

Items == StrItems \cup HfItems \cup ContainerItems \cup AttrItems \cup DictItems \cup OtherItems

DatasetNames == { <<>>, <<"a", "l", "i", "c", "e", "/", "m", "y", "s", "e", "t">>, <<"z", "z">> }

Pending == [k |-> "pending"]

\* values of the variables a specification does not use
IdleResolver ==
    /\ video_item = NoneV
    /\ file_index = 0
    /\ resolved = Pending

IdleExtract ==
    /\ dataset = NoneV
    /\ split = "train"
    /\ label_column = NoneV
    /\ label_column_given = NoneV
    /\ max_items = NoneV
    /\ default_label = <<>>
    /\ change_label = NoneV
    /\ use_label = NoneV
    /\ i = 0
    /\ results = <<>>
    /\ origin = <<>>
    /\ extracted = Pending

IdleMain ==
    /\ tool = "none"
    /\ database = NoneV
    /\ output_file = NoneV
    /\ output_before = NoneV
    /\ io_fault = "none"
    /\ load_outcome = Pending
    /\ loader_called = FALSE
    /\ video_dir = NoneV
    /\ relative_paths = FALSE
    /\ outcome = "running"
    /\ ret = Pending
    /\ exit_status = Pending

(***************************************************************************)
(* SpecResolve: one call of get_video_url_from_hf on any input.            *)
(***************************************************************************)
InitResolve ==
    /\ pc = "resolve"
    /\ video_item \in Items
    /\ dataset_name \in DatasetNames
    /\ file_index \in 0..MaxIndex
    /\ resolved = Pending
    /\ IdleExtract
    /\ IdleMain

Resolve ==
    /\ pc = "resolve"
    /\ resolved' = get_video_url_from_hf(video_item, dataset_name, file_index)
    /\ pc' = "resolved"
    /\ UNCHANGED <<video_item, dataset_name, file_index, extractVars, mainVars>>

NextResolve == Resolve

SpecResolve == InitResolve /\ [][NextResolve]_vars

(***************************************************************************)
(* Claims about the Reference Resolver (checked under SpecResolve).        *)
(***************************************************************************)
UrlString(item) == IsStr(item) /\ IsUrlStr(item.s)
HasEncodedRecord(item) == HasAttr(item, "_hf_encoded") /\ IsDict(item.a["_hf_encoded"])
HasHfPath(item) ==
    /\ HasEncodedRecord(item)
    /\ "path" \in DOMAIN item.a["_hf_encoded"].m
    /\ IsStr(item.a["_hf_encoded"].m["path"])
    /\ StartsWith(item.a["_hf_encoded"].m["path"].s, HfScheme)
NonEmptyString(v) == IsStr(v) /\ v.s # <<>>

\* C3 (as claimed): the resolver is total: for every reference, dataset
\* identifier and index it returns without raising, the result is a
\* non-empty string, and when nothing is resolvable it is video_<index>.mp4.
C3_ResolverTotal ==
    pc = "resolved" =>
        /\ resolved.k = "ret"
        /\ NonEmptyString(resolved.v)
        /\ (~UrlString(video_item)
              /\ ExtractFilename(video_item, file_index) = Filename(NoneV))
           => resolved.v = StrV(Placeholder(file_index))

\* The nine variants of the data model: shape test and extraction of each.
VariantMatches(n, item) ==
    CASE n = 1 -> UrlString(item)
      [] n = 2 -> HasEncodedRecord(item)
      [] n = 3 -> HasAttr(item, "container") /\ HasAttr(item, "_hf_encoded")
      [] n = 4 -> HasAttr(item, "path") \/ HasAttr(item, "filename") \/ HasAttr(item, "name")
      [] n = 5 -> HasAttr(item, "url")
      [] n = 6 -> HasAttr(item, "src")
      [] n = 7 -> IsStr(item)
      [] n = 8 -> IsDict(item)
      [] n = 9 -> TRUE

VariantOutcome(n, item, idx) ==
    CASE n = 1 -> Ret(item)
      [] n = 2 -> FromHfEncoded(item.a["_hf_encoded"])
      [] n = 3 -> FromContainer(item, idx)
      [] n = 4 -> IF HasAttr(item, "path") THEN Basename(item.a["path"])
                  ELSE IF HasAttr(item, "filename") THEN Filename(item.a["filename"])
                  ELSE Filename(item.a["name"])
      [] n = 5 -> Ret(item.a["url"])
      [] n = 6 -> FromSrc(item.a["src"])
      [] n = 7 -> FromStr(item)
      [] n = 8 -> FromDict(item)
      [] n = 9 -> FromOther(item)

VariantIds == 1..9

\* a variant yields when it returns, raises or leaves a non-empty filename
Yields(x) == x.k # "filename" \/ Truthy(x.v)

Finish(x, ds, idx) == IF x.k = "filename" THEN PostResolve(x.v, ds, idx) ELSE x

FirstMatching(item) ==
    CHOOSE n \in VariantIds :
        VariantMatches(n, item) /\ \A m \in 1..(n-1) : ~VariantMatches(m, item)

YieldingVariants(item, idx) ==
    { n \in VariantIds : VariantMatches(n, item) /\ Yields(VariantOutcome(n, item, idx)) }

\* C4 (as claimed): the result comes from the first variant, in priority
\* order, that yields a result; a variant that matches the shape but
\* extracts nothing does not stop later variants from being tried.
C4_FirstYieldingVariantWins ==
    pc = "resolved" =>
        LET ys == YieldingVariants(video_item, file_index)
        IN  IF ys = {}
            THEN resolved = Ret(StrV(Placeholder(file_index)))
            ELSE LET n == CHOOSE k \in ys : \A j \in ys : k <= j
                 IN  resolved = Finish(VariantOutcome(n, video_item, file_index),
                                       dataset_name, file_index)

\* C4 (amended): the result comes from the first variant, in priority order,
\* whose shape matches the reference, whether or not it extracts anything;
\* when that variant extracts nothing, no later variant is tried and the
\* result is video_<index>.mp4.
C4_FirstMatchingVariantWins ==
    pc = "resolved" =>
        LET x == VariantOutcome(FirstMatching(video_item), video_item, file_index)
        IN  /\ resolved = Finish(x, dataset_name, file_index)
            /\ (x.k = "filename" /\ ~Truthy(x.v))
               => resolved = Ret(StrV(Placeholder(file_index)))

\* C4 witness: an encoded-location record with an empty path on an object
\* that also has a path attribute resolves to the placeholder.
C4_Witness ==
    /\ pc = "resolved"
    /\ HasEncodedRecord(video_item)
    /\ FromHfEncoded(video_item.a["_hf_encoded"]) = Filename(NoneV)
    /\ HasAttr(video_item, "path")
    /\ resolved = Ret(StrV(Placeholder(file_index)))

\* the filename is the sentinel none value
IsNoneSentinel(f) ==
    \/ f = StrV(<<"N", "o", "n", "e">>)
    \/ Contains(Lower(PyStr(f)), <<"<", "n", "o", "n", "e", ">">>)

\* C5: whenever a variant produced a filename without returning, and the
\* dataset identifier is non-empty, and the filename is non-empty and not
\* a sentinel none value, the result is
\* https://huggingface.co/datasets/<dataset identifier>/resolve/main/<filename>;
\* otherwise it is the bare filename, or video_<index>.mp4 when the filename
\* is empty; an http(s) URL string is returned unchanged.
C5_PostResolution ==
    pc = "resolved" =>
        /\ UrlString(video_item) => resolved = Ret(video_item)
        /\ (video_item = StrV(<<"c", "l", "i", "p", "9", ".", "m", "p", "4">>) /\ dataset_name = <<"a", "l", "i", "c", "e", "/", "m", "y", "s", "e", "t">>)
           => resolved =
                Ret(StrV(<<"h", "t", "t", "p", "s", ":", "/", "/", "h", "u", "g", "g", "i", "n", "g", "f", "a", "c", "e", ".", "c", "o", "/", "d", "a", "t", "a", "s", "e", "t", "s", "/", "a", "l", "i", "c", "e", "/", "m", "y", "s", "e", "t", "/", "r", "e", "s", "o", "l", "v", "e", "/", "m", "a", "i", "n", "/", "c", "l", "i", "p", "9", ".", "m", "p", "4">>))
        /\ (~UrlString(video_item)
              /\ ExtractFilename(video_item, file_index).k = "filename")
           => LET f == ExtractFilename(video_item, file_index).v
              IN  IF Truthy(f) /\ dataset_name # <<>> /\ ~IsNoneSentinel(f)
                  THEN resolved = Ret(StrV(<<"h", "t", "t", "p", "s", ":", "/", "/", "h", "u", "g", "g", "i", "n", "g", "f", "a", "c", "e", ".", "c", "o", "/", "d", "a", "t", "a", "s", "e", "t", "s", "/">>
                                           \o dataset_name \o <<"/", "r", "e", "s", "o", "l", "v", "e", "/", "m", "a", "i", "n", "/">>
                                           \o PyStr(f)))
                  ELSE IF Truthy(f) THEN resolved = Ret(f)
                  ELSE resolved = Ret(StrV(<<"v", "i", "d", "e", "o", "_">> \o IntStr(file_index) \o <<".", "m", "p", "4">>))

\* C5 witness: a bare filename combined with the dataset identifier.
C5_Witness ==
    /\ pc = "resolved"
    /\ video_item = StrV(<<"c", "l", "i", "p", "9", ".", "m", "p", "4">>)
    /\ dataset_name = <<"a", "l", "i", "c", "e", "/", "m", "y", "s", "e", "t">>
    /\ resolved =
         Ret(StrV(<<"h", "t", "t", "p", "s", ":", "/", "/", "h", "u", "g", "g", "i", "n", "g", "f", "a", "c", "e", ".", "c", "o", "/", "d", "a", "t", "a", "s", "e", "t", "s", "/", "a", "l", "i", "c", "e", "/", "m", "y", "s", "e", "t", "/", "r", "e", "s", "o", "l", "v", "e", "/", "m", "a", "i", "n", "/", "c", "l", "i", "p", "9", ".", "m", "p", "4">>))

\* the encoded path of a reference with the hf:// occurrences removed, split at '/'
HfSegments(item) == Split(RemoveAll(item.a["_hf_encoded"].m["path"].s, HfScheme), "/")

\* s without a trailing @revision (the last segment cut at its '@')
WithoutTrailingRevision(segs) ==
    IF Len(segs) = 0 THEN segs
    ELSE SubSeq(segs, 1, Len(segs) - 1) \o <<Split(segs[Len(segs)], "@")[1]>>

\* C6 (as claimed): for every reference whose encoded path begins with
\* hf://, the result is
\* https://huggingface.co/datasets/<dataset-path>/resolve/main/<filename>
\* with <filename> the last segment and <dataset-path> the segments between
\* the leading segment and the filename, a trailing @revision removed.
C6_HfPathAlwaysRewritten ==
    (pc = "resolved" /\ HasHfPath(video_item)) =>
        LET segs == HfSegments(video_item)
            n == Len(segs)
        IN  resolved =
              Ret(StrV(<<"h", "t", "t", "p", "s", ":", "/", "/", "h", "u", "g", "g", "i", "n", "g", "f", "a", "c", "e", ".", "c", "o", "/", "d", "a", "t", "a", "s", "e", "t", "s", "/">>
                       \o Join(WithoutTrailingRevision(SubSeq(segs, 2, n - 1)), "/")
                       \o <<"/", "r", "e", "s", "o", "l", "v", "e", "/", "m", "a", "i", "n", "/">> \o segs[n]))

\* C6 (amended): for every reference whose encoded path begins with hf://
\* and has at least three '/'-separated segments once hf:// is removed, the
\* result is https://huggingface.co/datasets/<dataset-path>/resolve/main/<filename>
\* with <filename> the last segment and <dataset-path> the segments between
\* the first segment and the filename cut at the first '@', whatever the
\* dataset identifier; with fewer segments the result is video_<index>.mp4.
C6_HfPathRewrittenFromThreeSegments ==
    (pc = "resolved" /\ HasHfPath(video_item)) =>
        LET segs == HfSegments(video_item)
            n == Len(segs)
            between == Join(SubSeq(segs, 2, n - 1), "/")
            cut == IF Find(between, "@") = 0 THEN between
                   ELSE SubSeq(between, 1, Find(between, "@") - 1)
        IN  IF n >= 3
            THEN resolved = Ret(StrV(<<"h", "t", "t", "p", "s", ":", "/", "/", "h", "u", "g", "g", "i", "n", "g", "f", "a", "c", "e", ".", "c", "o", "/", "d", "a", "t", "a", "s", "e", "t", "s", "/">> \o cut
                                     \o <<"/", "r", "e", "s", "o", "l", "v", "e", "/", "m", "a", "i", "n", "/">> \o segs[n]))
            ELSE resolved = Ret(StrV(<<"v", "i", "d", "e", "o", "_">> \o IntStr(file_index) \o <<".", "m", "p", "4">>))

\* C6 witness: the documented example, with a dataset identifier that
\* differs from the one in the path.
C6_Witness ==
    /\ pc = "resolved"
    /\ video_item =
         Obj(A1("_hf_encoded", Enc(StrV(<<"h", "f", ":", "/", "/", "d", "a", "t", "a", "s", "e", "t", "s", "/", "a", "l", "i", "c", "e", "/", "m", "y", "s", "e", "t", "@", "a", "b", "c", "d", "1", "2", "3", "/", "c", "l", "i", "p", "7", ".", "m", "p", "4">>))))
    /\ dataset_name = <<"z", "z">>
    /\ resolved =
         Ret(StrV(<<"h", "t", "t", "p", "s", ":", "/", "/", "h", "u", "g", "g", "i", "n", "g", "f", "a", "c", "e", ".", "c", "o", "/", "d", "a", "t", "a", "s", "e", "t", "s", "/", "a", "l", "i", "c", "e", "/", "m", "y", "s", "e", "t", "/", "r", "e", "s", "o", "l", "v", "e", "/", "m", "a", "i", "n", "/", "c", "l", "i", "p", "7", ".", "m", "p", "4">>))

(***************************************************************************)
(* extract_videos_from_dataset (src/hf_db_to_input.py, lines 137-226).     *)
(* A source is [column_names, records]: column_names is NoSchema when the  *)
(* source has no column_names attribute, NullSchema when the attribute is  *)
(* None (a stream whose features are unknown), else the set of columns;    *)
(* records are functions from field names to values.  A dataset is one     *)
(* source or a mapping of split names to sources.                          *)
(***************************************************************************)
VideoColumn == "video"

NoSchema == [k |-> "none"]
NullSchema == [k |-> "null"]
Schema(cols) == [k |-> "columns", cols |-> cols]
Source(schema, records) == [column_names |-> schema, records |-> records]
SingleSplit(src) == [t |-> "single", data |-> src]
SplitDict(names, src) == [t |-> "splits", names |-> names, data |-> src]

\* a column name given as an argument
ColV(c) == [t |-> "col", c |-> c]
ColumnGiven(lc) == lc.t = "col"

\* the manifest entry appended at lines 214-217
Entry(video, label) == DictV(A2("video", video, "label", label))

\* lines 164-168: split not in dataset
SplitMissing == dataset.t = "splits" /\ split \notin dataset.names

\* lines 173-175: video_column not in data.column_names
VideoColumnMissing ==
    /\ dataset.data.column_names.k = "columns"
    /\ VideoColumn \notin dataset.data.column_names.cols

\* line 174: `in` applied to a column_names that is None raises TypeError
ColumnsNull == dataset.data.column_names.k = "null"

\* lines 177-179: the label column is dropped when the schema lacks it
CheckedLabelColumn ==
    IF /\ dataset.data.column_names.k = "columns"
       /\ ColumnGiven(label_column)
       /\ label_column.c \notin dataset.data.column_names.cols
    THEN NoneV
    ELSE label_column

\* lines 206-212 with the override asked after the label column
LabelForColumnFirst(item, use_lbl, label_col, dflt) ==
    IF ColumnGiven(label_col) /\ label_col.c \in DOMAIN item
    THEN StrV(PyStr(item[label_col.c]))
    ELSE IF Truthy(use_lbl) THEN use_lbl
    ELSE StrV(dflt)

\* lines 206-212: the label of one entry
LabelFor(item, use_lbl, label_col, dflt) ==
    IF Truthy(use_lbl) THEN use_lbl
    ELSE IF ColumnGiven(label_col) /\ label_col.c \in DOMAIN item
    THEN StrV(PyStr(item[label_col.c]))
    ELSE StrV(dflt)

\* lines 202-217: the body of the try for one record: the entry, or the
\* exception raised on the way
ProcessItem(item, idx) ==
    IF VideoColumn \notin DOMAIN item THEN Raise("KeyError")
    ELSE LET video_url == get_video_url_from_hf(item[VideoColumn], dataset_name, idx)
         IN  IF video_url.k = "raise" THEN video_url
             ELSE Ret(Entry(video_url.v,
                            LabelFor(item, use_label, label_column, default_label)))

\* line 197: max_items and i >= max_items
CapReached == Truthy(max_items) /\ i >= max_items.n

\* lines 161-192: split selection, column checks, choice of the override
ExtractBegin ==
    /\ pc = "extract"
    /\ IF SplitMissing \/ ColumnsNull \/ VideoColumnMissing
       THEN /\ extracted' = IF ~SplitMissing /\ ColumnsNull
                             THEN Raise("TypeError") ELSE Raise("ValueError")
            /\ pc' = "extracted"
            /\ UNCHANGED <<label_column, use_label>>
       ELSE /\ label_column' = CheckedLabelColumn
            /\ use_label' = IF Truthy(change_label) THEN change_label ELSE NoneV
            /\ pc' = "loop"
            /\ UNCHANGED extracted
    /\ i' = 0
    /\ results' = <<>>
    /\ origin' = <<>>
    /\ UNCHANGED <<dataset_name, resolverVars, dataset, split, label_column_given, max_items, default_label,
                   change_label, mainVars>>

\* one iteration in which an exception of the record leaves the function
ExtractItemNoCatch ==
    /\ pc = "loop"
    /\ i < Len(dataset.data.records)
    /\ ~CapReached
    /\ LET out == ProcessItem(dataset.data.records[i + 1], i)
       IN  IF out.k = "ret"
           THEN /\ results' = Append(results, out.v)
                /\ origin' = Append(origin, i)
                /\ UNCHANGED <<pc, extracted>>
           ELSE /\ extracted' = out
                /\ pc' = "extracted"
                /\ UNCHANGED <<results, origin>>
    /\ i' = i + 1
    /\ UNCHANGED <<dataset_name, resolverVars, dataset, split, label_column_given, label_column, max_items,
                   default_label, change_label, use_label, mainVars>>

\* lines 194-224: one iteration of the loop that processes a record
ExtractItem ==
    /\ pc = "loop"
    /\ i < Len(dataset.data.records)
    /\ ~CapReached
    /\ LET out == ProcessItem(dataset.data.records[i + 1], i)
       IN  IF out.k = "ret"
           THEN /\ results' = Append(results, out.v)
                /\ origin' = Append(origin, i)
           ELSE UNCHANGED <<results, origin>>      \* except Exception: continue
    /\ i' = i + 1
    /\ UNCHANGED <<pc, dataset_name, resolverVars, dataset, split, label_column_given, label_column, max_items,
                   default_label, change_label, use_label, extracted, mainVars>>

\* lines 197-199 and 226: the cap is reached, the loop breaks, results returned
ExtractBreak ==
    /\ pc = "loop"
    /\ i < Len(dataset.data.records)
    /\ CapReached
    /\ extracted' = Ret(results)
    /\ pc' = "extracted"
    /\ UNCHANGED <<dataset_name, resolverVars, dataset, split, label_column_given, label_column, max_items,
                   default_label, change_label, use_label, i, results, origin, mainVars>>

\* lines 194 and 226: the records are exhausted, results returned
ExtractExhausted ==
    /\ pc = "loop"
    /\ i = Len(dataset.data.records)
    /\ extracted' = Ret(results)
    /\ pc' = "extracted"
    /\ UNCHANGED <<dataset_name, resolverVars, dataset, split, label_column_given, label_column, max_items,
                   default_label, change_label, use_label, i, results, origin, mainVars>>

(***************************************************************************)
(* Inputs of extract_videos_from_dataset.                                  *)
(***************************************************************************)
RecUrlCat == A2("video", StrV(<<"h", "t", "t", "p", "s", ":", "/", "/", "h", "/", "v", ".", "m", "p", "4">>), "label", StrV(<<"c", "a", "t">>))
RecClipSeven == A2("video", StrV(<<"c", "l", "i", "p", "9", ".", "m", "p", "4">>), "label", IntV(7))
RecClipOnly == A1("video", StrV(<<"c", "l", "i", "p", "9", ".", "m", "p", "4">>))
RecNoVideo == A1("label", StrV(<<"d", "o", "g">>))
RecBrokenRef == A2("video", Obj(A1("_hf_encoded", Enc(NoneV))), "label", StrV(<<"c", "a", "t">>))

\* sequences over S of length at most n
SeqsUpTo(S, n) == UNION { [1..k -> S] : k \in 0..n }

\* with a schema every record has exactly the columns of the schema
Sources(n) ==
    { Source(NoSchema, rs) :
        rs \in SeqsUpTo({RecUrlCat, RecClipSeven, RecClipOnly, RecNoVideo, RecBrokenRef}, n) }
    \cup { Source(Schema({"video", "label"}), rs) :
        rs \in SeqsUpTo({RecUrlCat, RecClipSeven, RecBrokenRef}, n) }
    \cup { Source(Schema({"video"}), rs) : rs \in SeqsUpTo({RecClipOnly}, n) }
    \cup { Source(Schema({"label"}), rs) : rs \in SeqsUpTo({RecNoVideo}, n) }
    \cup { Source(NullSchema, <<RecUrlCat>>) }

Datasets(n) ==
    { SingleSplit(src) : src \in Sources(n) }
    \cup { SplitDict({"train", "test"}, src) : src \in Sources(n) }
    \cup { SplitDict({"test"}, Source(NoSchema, <<RecUrlCat>>)) }

LabelColumns == { NoneV, ColV("label"), ColV("tag") }
Caps == { NoneV } \cup { IntV(m) : m \in 0..MaxCap }
Overrides == { NoneV, StrV(<<>>), StrV(<<"X">>) }

(***************************************************************************)
(* SpecExtract: one call of extract_videos_from_dataset.                   *)
(***************************************************************************)
InitExtract ==
    /\ pc = "extract"
    /\ dataset_name = <<"z", "z">>
    /\ IdleResolver
    /\ dataset \in Datasets(MaxRecords)
    /\ split = "train"
    /\ label_column \in LabelColumns
    /\ label_column_given = label_column
    /\ max_items \in Caps
    /\ default_label = <<"d", "f", "l", "t">>
    /\ change_label \in Overrides
    /\ use_label = NoneV
    /\ i = 0
    /\ results = <<>>
    /\ origin = <<>>
    /\ extracted = Pending
    /\ IdleMain

NextExtract == ExtractBegin \/ ExtractItem \/ ExtractBreak \/ ExtractExhausted

SpecExtract == InitExtract /\ [][NextExtract]_vars

(***************************************************************************)
(* Claims about extract_videos_from_dataset (checked under SpecExtract).   *)
(***************************************************************************)
Records == dataset.data.records
\* the call fails before the first record: a split or column is missing
ConfigError == SplitMissing \/ ColumnsNull \/ VideoColumnMissing
StrictlyIncreasing(q) == \A j \in 1..(Len(q) - 1) : q[j] < q[j + 1]

\* processing the record at index k raises
RecordRaises(k) ==
    \/ VideoColumn \notin DOMAIN Records[k + 1]
    \/ get_video_url_from_hf(Records[k + 1][VideoColumn], dataset_name, k).k = "raise"

\* C1 (as claimed): for a source of n records and a cap max_items = m with
\* m <= n, the call returns exactly m entries, in the order of the records
\* they came from, and reaching the cap is not an error.
C1_CapGivesExactlyCapEntries ==
    (/\ pc = "extracted"
     /\ ~ConfigError
     /\ max_items.t = "int"
     /\ max_items.n <= Len(Records))
    => /\ extracted.k = "ret"
       /\ Len(extracted.v) = max_items.n
       /\ StrictlyIncreasing(origin)

\* C2: an exception raised while one record is processed skips that record
\* only: the call returns (nothing but a configuration error leaves it),
\* every record up to the cap or the end is iterated, each iterated record
\* that does not raise has its entry, and the number of entries is the
\* number of records iterated minus the number that raised.
C2_PerRecordErrorsSkipped ==
    pc = "extracted" =>
        /\ extracted.k = "raise" <=> ConfigError
        /\ extracted.k = "ret" =>
             LET raising == { k \in 0..(i - 1) : RecordRaises(k) }
             IN  /\ i = IF Truthy(max_items) /\ max_items.n < Len(Records)
                         THEN max_items.n ELSE Len(Records)
                 /\ Len(extracted.v) = i - Cardinality(raising)
                 /\ { origin[j] : j \in 1..Len(origin) } = (0..(i - 1)) \ raising
                 /\ Len(origin) = Len(extracted.v)

\* C2 witness: a record raised and a later record has its entry.
C2_Witness ==
    /\ pc = "extracted"
    /\ extracted.k = "ret"
    /\ \E k \in 0..(i - 1) :
         /\ RecordRaises(k)
         /\ \E j \in 1..Len(origin) : origin[j] > k

\* the override label is set (a non-empty string)
OverrideSet == change_label.t = "str" /\ change_label.s # <<>>

\* C8: the label of every entry is the override label if it is set;
\* otherwise the stringified value at label_field if that field is
\* configured and present in the record; otherwise default_label.
C8_LabelPrecedence ==
    (pc = "extracted" /\ extracted.k = "ret") =>
        \A j \in 1..Len(extracted.v) :
            LET rec == Records[origin[j] + 1]
                label == extracted.v[j].m["label"]
            IN  /\ IsStr(label)
                /\ IF OverrideSet THEN label = change_label
                   ELSE IF /\ label_column_given.t = "col"
                           /\ label_column_given.c \in DOMAIN rec
                   THEN /\ label.s = PyStr(rec[label_column_given.c])
                        /\ rec[label_column_given.c] = IntV(7) => label.s = <<"7">>
                   ELSE label.s = default_label

\* C8 witness: an override is set, the label column is configured and
\* present in a record with another value, and the entry has the override.
C8_Witness ==
    /\ pc = "extracted"
    /\ extracted.k = "ret"
    /\ OverrideSet
    /\ label_column_given = ColV("label")
    /\ \E j \in 1..Len(extracted.v) :
         /\ "label" \in DOMAIN Records[origin[j] + 1]
         /\ Records[origin[j] + 1]["label"] # change_label
         /\ extracted.v[j].m["label"] = change_label

(***************************************************************************)
(* The output file and json.dump / json.load.                              *)
(* A file is absent, holds a JSON array (its items, as json.load returns   *)
(* them and json.dump writes them: str, None, int and dicts of these come  *)
(* back as they went), or holds the text written before a dump failed,     *)
(* which no longer parses.                                                 *)
(***************************************************************************)
FileAbsent == [k |-> "absent"]
JsonFile(v) == [k |-> "json", v |-> v]
PartialFile(v) == [k |-> "partial", v |-> v]

\* json can encode the value: str, None, int, and dicts of such values
RECURSIVE Serializable(_)
Serializable(v) ==
    CASE v.t \in {"str", "none", "int"} -> TRUE
      [] v.t = "dict" -> \A key \in DOMAIN v.m : Serializable(v.m[key])
      [] OTHER -> FALSE

\* position of the first item json.dump cannot encode, 0 when there is none
FirstBad(data) ==
    IF \E k \in 1..Len(data) : ~Serializable(data[k])
    THEN CHOOSE k \in 1..Len(data) :
            ~Serializable(data[k]) /\ \A j \in 1..(k - 1) : Serializable(data[j])
    ELSE 0

\* with open(args.output, 'w') as f: json.dump(json_data, f, indent=4)
\* open truncates the file; dump writes item after item and raises at the
\* first item it cannot encode or when the file system fails
WriteJson(before, data) ==
    IF io_fault = "open" THEN [file |-> before, raised |-> TRUE]
    ELSE IF FirstBad(data) # 0
    THEN [file |-> PartialFile(SubSeq(data, 1, FirstBad(data) - 1)), raised |-> TRUE]
    ELSE IF io_fault = "write" THEN [file |-> PartialFile(<<>>), raised |-> TRUE]
    ELSE [file |-> JsonFile(data), raised |-> FALSE]

(***************************************************************************)
(* main of src/hf_db_to_input.py (lines 228-339).                          *)
(***************************************************************************)
\* line 253: args.change_label and os.path.exists(args.output)
RewriteRequested == Truthy(change_label) /\ output_file.k # "absent"

\* lines 262-263 without the test for the key: every dict gets the label
RewriteEntryAlways(item, new_label) ==
    IF IsDict(item)
    THEN DictV(A1("label", new_label) @@ item.m)
    ELSE item

\* lines 262-263: one item of the loaded manifest
RewriteEntry(item, new_label) ==
    IF IsDict(item) /\ "label" \in DOMAIN item.m
    THEN DictV([item.m EXCEPT !["label"] = new_label])
    ELSE item

\* lines 253-271: the Label Rewriter path
RewriteLabels ==
    /\ pc = "main"
    /\ RewriteRequested
    /\ IF output_file.k = "partial"
       THEN \* json.load raises, caught at line 334
            /\ outcome' = "exception"
            /\ ret' = IntV(1)
            /\ UNCHANGED output_file
       ELSE LET json_data == [k \in 1..Len(output_file.v) |->
                                 RewriteEntry(output_file.v[k], change_label)]
                w == WriteJson(output_file, json_data)
            IN  /\ output_file' = w.file
                /\ outcome' = IF w.raised THEN "exception" ELSE "rewritten"
                /\ ret' = IF w.raised THEN IntV(1) ELSE IntV(0)
    /\ pc' = "returned"
    /\ UNCHANGED <<dataset_name, resolverVars, extractVars, tool, database, output_before,
                   io_fault, load_outcome, loader_called, video_dir, relative_paths,
                   exit_status>>

\* lines 274-276: no --database
MissingDatabase ==
    /\ pc = "main"
    /\ ~RewriteRequested
    /\ ~Truthy(database)
    /\ outcome' = "no_database"
    /\ ret' = IntV(1)
    /\ pc' = "returned"
    /\ UNCHANGED <<dataset_name, resolverVars, extractVars, tool, database, output_file,
                   output_before, io_fault, load_outcome, loader_called, video_dir,
                   relative_paths, exit_status>>

\* lines 279-304: load_dataset, then the call of extract_videos_from_dataset
LoadDataset ==
    /\ pc = "main"
    /\ ~RewriteRequested
    /\ Truthy(database)
    /\ loader_called' = TRUE
    /\ IF load_outcome.k = "raise"
       THEN /\ outcome' = "exception"
            /\ ret' = IntV(1)
            /\ pc' = "returned"
            /\ UNCHANGED <<dataset, dataset_name>>
       ELSE /\ dataset' = load_outcome.v
            /\ dataset_name' = database.s
            /\ pc' = "extract"
            /\ UNCHANGED <<outcome, ret>>
    /\ UNCHANGED <<resolverVars, split, label_column_given, label_column, max_items,
                   default_label, change_label, use_label, i, results, origin, extracted,
                   tool, database, output_file, output_before, io_fault, load_outcome,
                   video_dir, relative_paths, exit_status>>

\* lines 334-336: extract_videos_from_dataset raised
ExtractFailed ==
    /\ pc = "extracted"
    /\ extracted.k = "raise"
    /\ outcome' = "exception"
    /\ ret' = IntV(1)
    /\ pc' = "returned"
    /\ UNCHANGED <<dataset_name, resolverVars, extractVars, tool, database, output_file,
                   output_before, io_fault, load_outcome, loader_called, video_dir,
                   relative_paths, exit_status>>

\* lines 306-308: nothing was extracted
NoEntries ==
    /\ pc = "extracted"
    /\ extracted = Ret(<<>>)
    /\ outcome' = "no_entries"
    /\ ret' = IntV(1)
    /\ pc' = "returned"
    /\ UNCHANGED <<dataset_name, resolverVars, extractVars, tool, database, output_file,
                   output_before, io_fault, load_outcome, loader_called, video_dir,
                   relative_paths, exit_status>>

\* lines 310-336: the manifest is written; main falls off its end
WriteOutput ==
    /\ pc = "extracted"
    /\ extracted.k = "ret"
    /\ extracted.v # <<>>
    /\ LET w == WriteJson(output_file, extracted.v)
       IN  /\ output_file' = w.file
           /\ outcome' = IF w.raised THEN "exception" ELSE "written"
           /\ ret' = IF w.raised THEN IntV(1) ELSE NoneV
    /\ pc' = "returned"
    /\ UNCHANGED <<dataset_name, resolverVars, extractVars, tool, database, output_before,
                   io_fault, load_outcome, loader_called, video_dir, relative_paths,
                   exit_status>>

\* lines 338-339 (and lines 95-96 of src/video_dir_to_input.py): main() is
\* called as a statement, its value is dropped, the interpreter exits with 0
ProcessExit ==
    /\ pc = "returned"
    /\ exit_status' = IntV(0)
    /\ pc' = "exited"
    /\ UNCHANGED <<dataset_name, resolverVars, extractVars, tool, database, output_file,
                   output_before, io_fault, load_outcome, loader_called, video_dir,
                   relative_paths, outcome, ret>>

(***************************************************************************)
(* src/video_dir_to_input.py.                                              *)
(* A directory argument names nothing, something that is no directory, or  *)
(* a directory: its path and a set of entries [name, is_file].             *)
(***************************************************************************)
VIDEO_EXTENSIONS ==
    { <<".", "m", "p", "4">>, <<".", "a", "v", "i">>, <<".", "m", "o", "v">>, <<".", "m", "k", "v">>, <<".", "w", "m", "v">>, <<".", "f", "l", "v">>, <<".", "w", "e", "b", "m">>, <<".", "m", "4", "v">>, <<".", "3", "g", "p">> }

DirMissing == [k |-> "missing"]
NotADir == [k |-> "file"]
Dir(path, entries) == [k |-> "dir", path |-> path, entries |-> entries]

\* code points in increasing order, for the characters of the modelled paths
AsciiOrder == <<".", "/", "0", "1", "2", "3", "4", "5", "6", "7", "8", "9">> \o UpperChars \o <<"_">> \o LowerChars
Ord(c) == CHOOSE k \in 1..Len(AsciiOrder) : AsciiOrder[k] = c

\* a < b for str
RECURSIVE StrLess(_, _)
StrLess(a, b) ==
    IF Len(b) = 0 THEN FALSE
    ELSE IF Len(a) = 0 THEN TRUE
    ELSE IF a[1] = b[1] THEN StrLess(Tail(a), Tail(b))
    ELSE Ord(a[1]) < Ord(b[1])

\* sorted(S) for a set of str
RECURSIVE Sorted(_)
Sorted(S) ==
    IF S = {} THEN <<>>
    ELSE LET least == CHOOSE x \in S : \A y \in S \ {x} : StrLess(x, y)
         IN  <<least>> \o Sorted(S \ {least})

\* Path.suffix: from the last '.' of the name, unless it leads or ends it
Suffix(name) ==
    IF RFind(name, ".") > 1 /\ RFind(name, ".") < Len(name)
    THEN SubSeq(name, RFind(name, "."), Len(name))
    ELSE <<>>

\* lines 35-39: the video files of the directory, sorted
find_video_files(d) ==
    Sorted({ d.path \o <<"/">> \o e.name :
               e \in { x \in d.entries :
                         x.is_file /\ Lower(Suffix(x.name)) \in VIDEO_EXTENSIONS } })

\* the current working directory of the run
Cwd == <<"/", "w">>

\* os.path.relpath(p) for a path below the working directory
RelPath(p) ==
    IF StartsWith(p, Cwd \o <<"/">>) THEN SubSeq(p, Len(Cwd) + 2, Len(p)) ELSE p

\* lines 41-52
create_json_input(video_files, label) ==
    [k \in 1..Len(video_files) |-> Entry(StrV(video_files[k]), StrV(label))]

\* lines 29-33 and 91-93: the directory is missing or is no directory
DirNotFound ==
    /\ pc = "dir_main"
    /\ video_dir.k # "dir"
    /\ outcome' = "exception"
    /\ ret' = IntV(1)
    /\ pc' = "returned"
    /\ UNCHANGED <<dataset_name, resolverVars, extractVars, tool, database, output_file,
                   output_before, io_fault, load_outcome, loader_called, video_dir,
                   relative_paths, exit_status>>

\* lines 69-71: no video file in the directory
DirNoVideos ==
    /\ pc = "dir_main"
    /\ video_dir.k = "dir"
    /\ find_video_files(video_dir) = <<>>
    /\ outcome' = "no_files"
    /\ ret' = NoneV
    /\ pc' = "returned"
    /\ UNCHANGED <<dataset_name, resolverVars, extractVars, tool, database, output_file,
                   output_before, io_fault, load_outcome, loader_called, video_dir,
                   relative_paths, exit_status>>

\* lines 73-93: the manifest is built and written
DirWrite ==
    /\ pc = "dir_main"
    /\ video_dir.k = "dir"
    /\ find_video_files(video_dir) # <<>>
    /\ LET found == find_video_files(video_dir)
           video_files == IF relative_paths
                          THEN [k \in 1..Len(found) |-> RelPath(found[k])]
                          ELSE found
           w == WriteJson(output_file, create_json_input(video_files, default_label))
       IN  /\ output_file' = w.file
           /\ outcome' = IF w.raised THEN "exception" ELSE "written"
           /\ ret' = IF w.raised THEN IntV(1) ELSE NoneV
    /\ pc' = "returned"
    /\ UNCHANGED <<dataset_name, resolverVars, extractVars, tool, database, output_before,
                   io_fault, load_outcome, loader_called, video_dir, relative_paths,
                   exit_status>>

(***************************************************************************)
(* Inputs of the two command lines.                                        *)
(***************************************************************************)
RecBytesUrl == A2("video", Obj(A1("url", BytesV)), "label", StrV(<<"c", "a", "t">>))

MainSources ==
    { Source(NoSchema, rs) :
        rs \in SeqsUpTo({RecUrlCat, RecClipOnly, RecNoVideo, RecBytesUrl}, MaxMainRecords) }
    \cup { Source(Schema({"video", "label"}), rs) :
        rs \in SeqsUpTo({RecClipSeven, RecBytesUrl}, MaxMainRecords) }
    \cup { Source(Schema({"label"}), <<RecNoVideo>>) }
    \cup { Source(NullSchema, <<RecUrlCat>>) }

LoadOutcomes ==
    { Raise("ConnectionError") }
    \cup { Ret(SingleSplit(src)) : src \in MainSources }
    \cup { Ret(SplitDict({"train", "test"}, src)) : src \in MainSources }
    \cup { Ret(SplitDict({"test"}, Source(NoSchema, <<RecUrlCat>>))) }

\* items of a manifest found on disk
OldLabelled == DictV(A2("video", StrV(<<"a", ".", "m", "p", "4">>), "label", StrV(<<"o", "l", "d">>)))
OldUnlabelled == DictV(A1("video", StrV(<<"b", ".", "m", "p", "4">>)))
OldAnnotated ==
    DictV(A2("video", StrV(<<"c", ".", "m", "p", "4">>), "label", StrV(<<"X">>)) @@ A1("note", StrV(<<"n">>)))
OldStray == StrV(<<"s", "t", "r", "a", "y">>)

ExistingFiles ==
    { JsonFile(v) :
        v \in SeqsUpTo({OldLabelled, OldUnlabelled, OldAnnotated, OldStray}, MaxEntries) }
    \cup { PartialFile(<<>>) }

FewFiles == { FileAbsent, JsonFile(<<OldLabelled>>), PartialFile(<<>>) }

IoFaults == { "none", "open", "write" }

DirEntries ==
    { [name |-> <<"b", ".", "m", "p", "4">>, is_file |-> TRUE], [name |-> <<"A", ".", "M", "O", "V">>, is_file |-> TRUE],
      [name |-> <<"n", "o", "t", "e", "s", ".", "t", "x", "t">>, is_file |-> TRUE], [name |-> <<"s", "u", "b", ".", "m", "p", "4">>, is_file |-> FALSE] }

\* the arguments of the dataset-mode run that the path taken never reads
NoBuildArguments ==
    /\ load_outcome = Raise("ConnectionError")
    /\ label_column = NoneV
    /\ max_items = NoneV

\* a run that takes the Label Rewriter path
InitRewrite ==
    /\ change_label = StrV(<<"X">>)
    /\ output_before \in ExistingFiles
    /\ database \in { NoneV, StrV(<<"z", "z">>) }
    /\ NoBuildArguments

\* a run that does not
InitBuild ==
    /\ change_label \in Overrides
    /\ output_before \in FewFiles
    /\ ~(Truthy(change_label) /\ output_before.k # "absent")
    /\ database \in { NoneV, StrV(<<"z", "z">>) }
    /\ IF Truthy(database)
       THEN /\ load_outcome \in LoadOutcomes
            /\ label_column \in { NoneV, ColV("label") }
            /\ max_items \in Caps
       ELSE NoBuildArguments

InitHf ==
    /\ pc = "main"
    /\ tool = "hf"
    /\ dataset_name = <<>>
    /\ IdleResolver
    /\ InitRewrite \/ InitBuild
    /\ io_fault \in IoFaults
    /\ output_file = output_before
    /\ label_column_given = label_column
    /\ dataset = NoneV
    /\ split = "train"
    /\ default_label = <<"d", "f", "l", "t">>
    /\ use_label = NoneV
    /\ i = 0
    /\ results = <<>>
    /\ origin = <<>>
    /\ extracted = Pending
    /\ loader_called = FALSE
    /\ video_dir = NoneV
    /\ relative_paths = FALSE
    /\ outcome = "running"
    /\ ret = Pending
    /\ exit_status = Pending

InitDir ==
    /\ pc = "dir_main"
    /\ tool = "dir"
    /\ dataset_name = <<>>
    /\ IdleResolver
    /\ dataset = NoneV
    /\ split = "train"
    /\ label_column = NoneV
    /\ label_column_given = NoneV
    /\ max_items = NoneV
    /\ default_label = <<"d", "f", "l", "t">>
    /\ change_label = NoneV
    /\ use_label = NoneV
    /\ i = 0
    /\ results = <<>>
    /\ origin = <<>>
    /\ extracted = Pending
    /\ database = NoneV
    /\ load_outcome = Pending
    /\ loader_called = FALSE
    /\ video_dir \in { DirMissing, NotADir } \cup { Dir(<<"/", "w", "/", "v">>, es) : es \in SUBSET DirEntries }
    /\ relative_paths \in BOOLEAN
    /\ output_before \in FewFiles
    /\ output_file = output_before
    /\ io_fault \in IoFaults
    /\ outcome = "running"
    /\ ret = Pending
    /\ exit_status = Pending

(***************************************************************************)
(* Spec: one run of either command line.                                   *)
(***************************************************************************)
Init == InitHf \/ InitDir

Next ==
    \/ RewriteLabels
    \/ MissingDatabase
    \/ LoadDataset
    \/ ExtractBegin
    \/ ExtractItem
    \/ ExtractBreak
    \/ ExtractExhausted
    \/ ExtractFailed
    \/ NoEntries
    \/ WriteOutput
    \/ DirNotFound
    \/ DirNoVideos
    \/ DirWrite
    \/ ProcessExit

Spec == Init /\ [][Next]_vars

(***************************************************************************)
(* Claims about the command lines (checked under Spec).                    *)
(***************************************************************************)
Finished == pc \in {"returned", "exited"}

\* the run took the Label Rewriter path: --change_label given (non-empty)
\* and the output file existed
RewritePath == tool = "hf" /\ Truthy(change_label) /\ output_before.k # "absent"

\* item `new` is item `old` after the Label Rewriter
Relabelled(old, new) ==
    IF IsDict(old) /\ "label" \in DOMAIN old.m
    THEN /\ IsDict(new)
         /\ DOMAIN new.m = DOMAIN old.m
         /\ new.m["label"] = change_label
         /\ \A key \in DOMAIN old.m \ {"label"} : new.m[key] = old.m[key]
    ELSE new = old

\* C7: on the Label Rewriter path a manifest of N entries becomes a
\* manifest of the same N entries in the same order, in which every entry
\* that has a label has the new label, every other field is unchanged and
\* entries without a label are unchanged; load_dataset is never called.
C7_LabelRewriter ==
    (Finished /\ RewritePath) =>
        /\ ~loader_called
        /\ outcome \in {"rewritten", "exception"}
        /\ (output_before.k = "json" /\ io_fault = "none") => outcome = "rewritten"
        /\ outcome = "rewritten" =>
             /\ ret = IntV(0)
             /\ output_file.k = "json"
             /\ Len(output_file.v) = Len(output_before.v)
             /\ \A k \in 1..Len(output_before.v) :
                    Relabelled(output_before.v[k], output_file.v[k])

\* C7 witness: a manifest with a labelled and an unlabelled entry was
\* rewritten and differs from what it was.
C7_Witness ==
    /\ pc = "exited"
    /\ RewritePath
    /\ outcome = "rewritten"
    /\ output_before = JsonFile(<<OldLabelled, OldUnlabelled>>)
    /\ output_file # output_before

\* C9 (as claimed): a dataset-mode run ends with status 1 if no entries were
\* extracted or an exception occurred (the configuration errors included),
\* and with status 0 otherwise.  Stated for the runs in which the file
\* system does not fail.
C9_ExitStatus ==
    (pc = "exited" /\ tool = "hf" /\ io_fault = "none") =>
        IF outcome \in {"no_database", "no_entries", "exception"}
        THEN exit_status = IntV(1)
        ELSE exit_status = IntV(0)

\* C10 (as claimed): after a run of either converter the output file is
\* the complete manifest of the run or exactly what it was before; a run
\* that fails leaves it as it was.  Stated for the runs in which the file
\* system does not fail.
C10_AllOrNothing ==
    (pc = "exited" /\ io_fault = "none") =>
        IF outcome \in {"written", "rewritten"}
        THEN output_file.k = "json"
        ELSE output_file = output_before

====
